---- MODULE Spec2Model ----
(***************************************************************************)
(* State-machine model of v3.py: VideoGenerator.create_video and the       *)
(* helpers it calls, driven by main.                                       *)
(*                                                                         *)
(* Times are integers in tenths of a second (3 s = 30).  Pixel sizes are   *)
(* <<width, height>>.  Every call into an external service or codec        *)
(* (gTTS, ffmpeg readers and writers, PIL) either succeeds or raises; the  *)
(* value it yields on success (a duration, a resolution, a directory       *)
(* listing) is drawn from a small set at the step that makes the call.     *)
(***************************************************************************)
EXTENDS Integers, Sequences, FiniteSets, TLC

\* ------------------------------------------------------------------ bounds
MaxN == 3        \* captions taken from the configured segment list
MaxImages == 3   \* image paths handed to create_video
MaxFiles == 2    \* entries of the video folder

\* --------------------------------------------------------------- constants
NominalLen == 30     \* "target_duration": 3 (seconds) of every segment
BgmVolume == 30      \* volumex(0.3), in percent
VoiceVolume == 100   \* volumex(1.0), in percent

video_size == <<1080, 1440>>

SegmentNames == <<"intro", "bronze", "silver", "gold", "platinum", "diamond", "king">>

\* setup_segments: the nominal "start" and "target_duration" of segment i.
SegmentConfig ==
    [i \in 1..Len(SegmentNames) |->
        [name |-> SegmentNames[i],
         start |-> (i - 1) * NominalLen,
         target_duration |-> NominalLen]]

\* What the external calls may yield.
Durations == {25, 32}            \* AudioFileClip(...).duration of a narration
BgmDurations == {50, 100}        \* AudioFileClip(bgm_path).duration
SrcSizes == {<<1080, 1440>>, <<540, 720>>, <<1081, 1441>>,
             <<1920, 1080>>, <<720, 1280>>}
FileNames == {<<"a", ".", "m", "p", "4">>,
              <<"b", ".", "M", "P", "4">>,
              <<"c", ".", "m", "o", "v">>}

NoError == "none"
NoPath == "none"
OutputPath == "output/final_video.mp4"

VARIABLES
    segments,        \* self.segments
    image_paths,     \* create_video's image_paths (ids of the paths)
    bgm_path,        \* create_video's bgm_path: "none" (None) or "bgm.mp3"
    pc,              \* position of main / create_video
    seg_i,           \* generate_audio_segments: index of the next segment
    current_start,   \* generate_audio_segments: current_start
    audio_segments,  \* list of (audio, current_start, actual_duration)
    folder,          \* os.listdir(video_folder), once read
    video_path,      \* the selected video file, once selected
    resized,         \* what resize_and_pad_video did in this run
    img_i,           \* create_video: loop variable i of the image loop
    video_clips,     \* create_video: video_clips
    final_video,     \* create_video: final_video
    voice_audio,     \* create_video: voice_audio
    bgm_exists,      \* os.path.exists(bgm_path): "unchecked", "yes" or "no"
    bgm_call,        \* what process_bgm did in this run
    final_audio,     \* create_video: final_audio
    log,             \* error lines written to the log file
    log_open,        \* self.log_file is open
    open_handles,    \* media readers opened and not closed
    attempts,        \* how often each external call was made
    work,            \* kinds of processing performed so far
    thrown,          \* the exception in flight inside create_video
    failed_unit,     \* the call that raised it
    raised,          \* the exception create_video raised to main
    result,          \* the value create_video returned
    main_out         \* what main printed last

vars == <<segments, image_paths, bgm_path, pc, seg_i, current_start,
          audio_segments, folder, video_path, resized, img_i, video_clips,
          final_video, voice_audio, bgm_exists, bgm_call, final_audio, log, log_open,
          open_handles, attempts, work, thrown, failed_unit, raised, result,
          main_out>>

\* ----------------------------------------------------------------- helpers
Max(a, b) == IF a >= b THEN a ELSE b
Min(a, b) == IF a <= b THEN a ELSE b

RECURSIVE SumDur(_)
SumDur(s) == IF s = <<>> THEN 0 ELSE s[1] + SumDur(Tail(s))

Range(s) == {s[k] : k \in 1..Len(s)}

RECURSIVE Listings(_, _)
\* What os.listdir can return: sequences of distinct names, at most n long.
Listings(S, n) ==
    IF n = 0 THEN {<<>>}
    ELSE LET shorter == Listings(S, n - 1)
         IN  shorter \cup
             UNION {{Append(s, x) : x \in S \ Range(s)} : s \in shorter}

\* ------------------------------------------------- generate_audio_segments
\* Mutant of NextStart: placement by the nominal target_duration.
NextStartNominal(start, actual_duration, segment) == start + segment.target_duration

\* current_start += actual_duration
NextStart(start, actual_duration, segment) == start + actual_duration

\* Mutant of SynthOnError: the handler logs and the loop goes on.
SynthOnErrorSwallow == "synth"

\* "raise" in the handler of the per-segment try: control leaves the loop
\* for create_video's handler.
SynthOnError == "except"

\* --------------------------------------------------- resize_and_pad_video
\* scale_ratio = max(target_width / w, target_height / h), then
\* clip.resize(scale_ratio): the scaled frame is int(scale_ratio * w) by
\* int(scale_ratio * h).  Computed in exact arithmetic: whichever ratio is
\* the larger maps its own dimension onto the target exactly.
ScaledSize(w, h) ==
    LET W == video_size[1]
        H == video_size[2]
    IN  IF W * h >= H * w
        THEN <<W, (h * W) \div w>>
        ELSE <<(w * H) \div h, H>>

\* Length of the slice a:b of an axis of length L (Python / numpy slicing:
\* negative bounds count from the end, all bounds are clipped to 0..L).
SliceLen(a, b, L) ==
    LET lo == IF a < 0 THEN Max(a + L, 0) ELSE Min(a, L)
        hi == IF b < 0 THEN Max(b + L, 0) ELSE Min(b, L)
    IN  Max(hi - lo, 0)

\* make_frame: the scaled frame (sw x sh) is assigned to the slice
\* [y_offset : y_offset + sh, x_offset : x_offset + sw] of a black
\* target_height x target_width frame.  numpy raises ValueError unless the
\* slice has the frame's shape (an axis of length 1 broadcasts).
MakeFrame(sw, sh) ==
    LET W == video_size[1]
        H == video_size[2]
        y_offset == (H - sh) \div 2
        x_offset == (W - sw) \div 2
        rows == SliceLen(y_offset, y_offset + sh, H)
        cols == SliceLen(x_offset, x_offset + sw, W)
    IN  [ok |-> (rows = sh \/ sh = 1) /\ (cols = sw \/ sw = 1),
         x_offset |-> x_offset,
         y_offset |-> y_offset,
         right |-> W - sw - x_offset,
         bottom |-> H - sh - y_offset]

\* resize_and_pad_video on a clip of w x h.  When the scaled size is the
\* canvas the scaled clip is returned.  Otherwise the padded clip is built
\* with VideoFileClip(None, make_frame=make_frame): VideoFileClip's
\* constructor takes no make_frame argument, so the call raises TypeError
\* before any frame is made; "frame" records what make_frame would do.
ResizeAndPadVideo(w, h) ==
    LET s == ScaledSize(w, h)
    IN  IF s = video_size
        THEN [ok |-> TRUE, err |-> NoError, padded |-> FALSE, src |-> <<w, h>>,
              scaled |-> s, size |-> s, frame |-> MakeFrame(s[1], s[2])]
        ELSE [ok |-> FALSE, err |-> "TypeError", padded |-> TRUE, src |-> <<w, h>>,
              scaled |-> s, size |-> <<0, 0>>, frame |-> MakeFrame(s[1], s[2])]

NotResized == [ok |-> FALSE, err |-> NoError, padded |-> FALSE, src |-> <<0, 0>>,
               scaled |-> <<0, 0>>, size |-> <<0, 0>>, frame |-> MakeFrame(0, 0)]

\* ------------------------------------------------------------ create_video
EndsWith(name, suffix) ==
    /\ Len(name) >= Len(suffix)
    /\ SubSeq(name, Len(name) - Len(suffix) + 1, Len(name)) = suffix

\* f.endswith(('.mp4', '.MP4'))
IsVideoFile(name) ==
    \/ EndsWith(name, <<".", "m", "p", "4">>)
    \/ EndsWith(name, <<".", "M", "P", "4">>)

\* Mutant of VideoFiles: the extension filter is left out.
VideoFilesUnfiltered(listing) == listing

\* [f for f in os.listdir(video_folder) if f.endswith(('.mp4', '.MP4'))]
VideoFiles(listing) == SelectSeq(listing, IsVideoFile)

\* video.subclip(t_start, t_end).duration
SubclipDuration(t_start, t_end) == t_end - t_start

\* The intro clip: process_video_by_duration(start=0, duration=first_duration)
\* followed by set_start(first_start).
IntroClip(first_start, first_duration) ==
    [kind |-> "video", entry |-> 0, image |-> 0, start |-> first_start,
     duration |-> SubclipDuration(0, 0 + first_duration), size |-> video_size]

\* Mutant of HasImage: off by one.
HasImageOffByOne(i, paths) == i - 1 <= Len(paths)

\* if i-1 < len(image_paths)
HasImage(i, paths) == i - 1 < Len(paths)

\* Mutant of ImageClip: the image is held for the nominal target_duration.
ImageClipNominal(i, start_time, duration) ==
    [kind |-> "image", entry |-> i, image |-> i - 1, start |-> start_time,
     duration |-> NominalLen, size |-> video_size]

\* create_image_video(image_paths[i-1], duration, ...) then
\* set_start(start_time): the image is resized to video_size.
ImageClip(i, start_time, duration) ==
    [kind |-> "image", entry |-> i, image |-> i - 1, start |-> start_time,
     duration |-> duration, size |-> video_size]

\* CompositeAudioClip(clips).duration: the latest end of its clips.
RECURSIVE CompositeDuration(_)
CompositeDuration(clips) ==
    IF clips = <<>> THEN 0
    ELSE Max(clips[1].start + clips[1].duration, CompositeDuration(Tail(clips)))

\* int(np.ceil(total_duration / original_duration))
CeilDiv(a, b) == (a + b - 1) \div b

\* process_bgm once the file is loaded with duration Do, for total_duration Dr.
\* The looping branch calls concatenate_audioclips, a name the module never
\* imports or defines: NameError.
ProcessBgm(Do, Dr) ==
    IF Do < Dr
    THEN [called |-> TRUE, ok |-> FALSE, err |-> "NameError", original |-> Do,
          required |-> Dr, repeat_times |-> CeilDiv(Dr, Do), start |-> 0,
          duration |-> 0, volume |-> 0]
    ELSE [called |-> TRUE, ok |-> TRUE, err |-> NoError, original |-> Do,
          required |-> Dr, repeat_times |-> 1, start |-> 0,
          duration |-> SubclipDuration(0, Dr), volume |-> BgmVolume]

NoBgm == [called |-> FALSE, ok |-> FALSE, err |-> NoError, original |-> 0,
          required |-> 0, repeat_times |-> 0, start |-> 0, duration |-> 0,
          volume |-> 0]

\* Mutant of UseBgm: the existence test is left out.
UseBgmNoExistsCheck(path, exists) == path # NoPath

\* if bgm_path and os.path.exists(bgm_path)
UseBgm(path, exists) == path # NoPath /\ exists

\* Mutant of CreateVideoOnError: the handler logs and swallows the exception.
CreateVideoOnErrorSwallow(e) == NoError

\* "raise" in create_video's handler re-raises the exception it caught.
CreateVideoOnError(e) == e

\* ------------------------------------------------------------------- state
Units ==
    ({"tts", "image"} \X (0..Len(SegmentNames)))
        \cup ({"find", "video", "composite", "bgm", "export"} \X {0})

NoUnit == <<"none", 0>>

NoAudio == [clips |-> <<>>, volume |-> 0, bgm |-> NoBgm, duration |-> 0]

NoVideo == [clips |-> <<>>, audio |-> NoAudio, composed |-> FALSE]

LogLine(at, name, err) == [at |-> at, name |-> name, err |-> err]

\* The state once main has built the generator (directories made, log file
\* open, segments configured) and is about to call create_video.
Init ==
    /\ segments \in {SubSeq(SegmentConfig, 1, n) : n \in 0..MaxN}
    /\ image_paths \in {[k \in 1..m |-> k] : m \in 0..MaxImages}
    /\ bgm_path \in {NoPath, "bgm.mp3"}
    /\ pc = "start"
    /\ seg_i = 1
    /\ current_start = 0
    /\ audio_segments = <<>>
    /\ folder = <<>>
    /\ video_path = <<>>
    /\ resized = NotResized
    /\ img_i = 1
    /\ video_clips = <<>>
    /\ final_video = NoVideo
    /\ voice_audio = NoAudio
    /\ bgm_exists = "unchecked"
    /\ bgm_call = NoBgm
    /\ final_audio = NoAudio
    /\ log = <<>>
    /\ log_open = TRUE
    /\ open_handles = {}
    /\ attempts = [u \in Units |-> 0]
    /\ work = {}
    /\ thrown = NoError
    /\ failed_unit = NoUnit
    /\ raised = NoError
    /\ result = NoPath
    /\ main_out = "none"

inputs == <<segments, image_paths, bgm_path>>
synthVars == <<seg_i, current_start, audio_segments>>
videoVars == <<folder, video_path, resized, img_i, video_clips, final_video>>
audioVars == <<voice_audio, bgm_exists, bgm_call, final_audio>>
exitVars == <<raised, result, main_out, log_open>>

Bump(u) == attempts' = [attempts EXCEPT ![u] = @ + 1]

\* An exception raised at call `unit`: the callee's own handler (if it has
\* one, `at`) logs it and re-raises, and control reaches create_video's
\* handler.
Throw(unit, err, at, name) ==
    /\ thrown' = err
    /\ failed_unit' = unit
    /\ log' = IF at = "" THEN log ELSE Append(log, LogLine(at, name, err))
    /\ pc' = "except"

\* create_video is entered; generate_audio_segments starts its loop.
BeginCreateVideo ==
    /\ pc = "start"
    /\ pc' = "synth"
    /\ seg_i' = 1
    /\ current_start' = 0
    /\ audio_segments' = <<>>
    /\ UNCHANGED <<inputs, videoVars, audioVars, exitVars, log, open_handles,
                   attempts, work, thrown, failed_unit>>

\* One iteration of the loop of generate_audio_segments.
SynthSegment ==
    /\ pc = "synth"
    /\ seg_i <= Len(segments)
    /\ Bump(<<"tts", seg_i>>)
    /\ work' = work \cup {"synthesis"}
    /\ LET segment == segments[seg_i]
       IN  \/ \* gTTS(...).save raises
              /\ thrown' = "SynthesisError"
              /\ failed_unit' = <<"tts", seg_i>>
              /\ log' = Append(log, LogLine("generate_audio_segments",
                                           segment.name, "SynthesisError"))
              /\ pc' = SynthOnError
              /\ UNCHANGED <<synthVars, open_handles>>
           \/ \* AudioFileClip(audio_path) raises
              /\ thrown' = "AudioLoadError"
              /\ failed_unit' = <<"tts", seg_i>>
              /\ log' = Append(log, LogLine("generate_audio_segments",
                                           segment.name, "AudioLoadError"))
              /\ pc' = SynthOnError
              /\ UNCHANGED <<synthVars, open_handles>>
           \/ \E actual_duration \in Durations :
                /\ audio_segments' =
                     Append(audio_segments,
                            [name |-> segment.name,
                             audio |-> [start |-> current_start,
                                        duration |-> actual_duration],
                             start |-> current_start,
                             duration |-> actual_duration])
                /\ current_start' = NextStart(current_start, actual_duration, segment)
                /\ seg_i' = seg_i + 1
                /\ open_handles' = open_handles \cup {<<"tts", seg_i>>}
                /\ UNCHANGED <<pc, log, thrown, failed_unit>>
    /\ UNCHANGED <<inputs, videoVars, audioVars, exitVars>>

\* generate_audio_segments returns its list to create_video.
SynthReturn ==
    /\ pc = "synth"
    /\ seg_i > Len(segments)
    /\ pc' = "find_video"
    /\ UNCHANGED <<inputs, synthVars, videoVars, audioVars, exitVars, log,
                   open_handles, attempts, work, thrown, failed_unit>>

\* The video folder is listed and its first .mp4/.MP4 entry selected.
FindVideo ==
    /\ pc = "find_video"
    /\ Bump(<<"find", 0>>)
    /\ \E listing \in Listings(FileNames, MaxFiles) :
         /\ folder' = listing
         /\ IF VideoFiles(listing) = <<>>
            THEN /\ Throw(<<"find", 0>>, "NoVideoFile", "", "")
                 /\ UNCHANGED video_path
            ELSE /\ video_path' = VideoFiles(listing)[1]
                 /\ pc' = "intro"
                 /\ UNCHANGED <<log, thrown, failed_unit>>
    /\ UNCHANGED <<inputs, synthVars, resized, img_i, video_clips, final_video,
                   audioVars, exitVars, open_handles, work>>

\* The intro clip: audio_segments[0], then process_video_by_duration.
Intro ==
    /\ pc = "intro"
    /\ IF audio_segments = <<>>
       THEN \* audio_segments[0] on an empty list
            /\ Throw(<<"video", 0>>, "IndexError", "", "")
            /\ UNCHANGED <<resized, video_clips, open_handles, attempts, work>>
       ELSE LET first == audio_segments[1]
                at == "process_video_by_duration"
            IN  /\ Bump(<<"video", 0>>)
                /\ \/ \* VideoFileClip(video_path) raises
                      /\ Throw(<<"video", 0>>, "VideoLoadError", at, "intro")
                      /\ work' = work \cup {"decode"}
                      /\ UNCHANGED <<resized, video_clips, open_handles>>
                   \/ \E size \in SrcSizes :
                        LET r == ResizeAndPadVideo(size[1], size[2])
                        IN  /\ resized' = r
                            /\ open_handles' = open_handles \cup {<<"video", 0>>}
                            /\ \/ \* resize_and_pad_video raises
                                  /\ ~r.ok
                                  /\ Throw(<<"video", 0>>, r.err, at, "intro")
                                  /\ work' = work \cup {"decode"}
                                  /\ UNCHANGED video_clips
                               \/ \* the debug write_videofile raises
                                  /\ r.ok
                                  /\ Throw(<<"video", 0>>, "EncodeError", at, "intro")
                                  /\ work' = work \cup {"decode", "encode"}
                                  /\ UNCHANGED video_clips
                               \/ /\ r.ok
                                  /\ video_clips' =
                                       Append(video_clips,
                                              IntroClip(first.start, first.duration))
                                  /\ work' = work \cup {"decode", "encode"}
                                  /\ pc' = "images"
                                  /\ UNCHANGED <<log, thrown, failed_unit>>
    /\ UNCHANGED <<inputs, synthVars, folder, video_path, img_i, final_video,
                   audioVars, exitVars>>

\* One iteration of "for i, (audio, start_time, duration) in
\* enumerate(audio_segments[1:], 1)".
ImageStep ==
    /\ pc = "images"
    /\ img_i <= Len(audio_segments) - 1
    /\ LET entry == audio_segments[img_i + 1]
       IN  IF HasImage(img_i, image_paths)
           THEN IF img_i - 1 >= Len(image_paths)
                THEN \* image_paths[i-1] out of range
                     /\ Throw(<<"image", img_i>>, "IndexError", "", "")
                     /\ UNCHANGED <<img_i, video_clips, attempts, work>>
                ELSE /\ Bump(<<"image", img_i>>)
                     /\ work' = work \cup {"decode"}
                     /\ \/ \* Image.open / save / ImageClip raises
                           /\ Throw(<<"image", img_i>>, "ImageError",
                                    "create_image_video", entry.name)
                           /\ UNCHANGED <<img_i, video_clips>>
                        \/ /\ video_clips' =
                                Append(video_clips,
                                       ImageClip(img_i, entry.start, entry.duration))
                           /\ img_i' = img_i + 1
                           /\ UNCHANGED <<pc, log, thrown, failed_unit>>
           ELSE /\ img_i' = img_i + 1
                /\ UNCHANGED <<pc, log, thrown, failed_unit, video_clips,
                               attempts, work>>
    /\ UNCHANGED <<inputs, synthVars, folder, video_path, resized, final_video,
                   audioVars, exitVars, open_handles>>

\* The image loop is over: final_video = CompositeVideoClip(video_clips).
Composite ==
    /\ pc = "images"
    /\ img_i > Len(audio_segments) - 1
    /\ Bump(<<"composite", 0>>)
    /\ work' = work \cup {"composite"}
    /\ \/ /\ Throw(<<"composite", 0>>, "CompositeError", "", "")
          /\ UNCHANGED final_video
       \/ /\ final_video' = [clips |-> video_clips, audio |-> NoAudio,
                             composed |-> TRUE]
          /\ pc' = "mix"
          /\ UNCHANGED <<log, thrown, failed_unit>>
    /\ UNCHANGED <<inputs, synthVars, folder, video_path, resized, img_i,
                   video_clips, audioVars, exitVars, open_handles>>

\* voice_audio = CompositeAudioClip(narrations); then the background, when
\* bgm_path is given and the file exists (process_bgm).
MixAudio ==
    /\ pc = "mix"
    /\ LET clips == [k \in 1..Len(audio_segments) |-> audio_segments[k].audio]
           voice == [clips |-> clips, volume |-> VoiceVolume, bgm |-> NoBgm,
                     duration |-> CompositeDuration(clips)]
       IN  /\ voice_audio' = voice
           /\ \E exists \in IF bgm_path = NoPath THEN {FALSE} ELSE BOOLEAN :
                /\ bgm_exists' = IF bgm_path = NoPath THEN "unchecked"
                                 ELSE IF exists THEN "yes" ELSE "no"
                /\ IF UseBgm(bgm_path, exists)
                   THEN /\ Bump(<<"bgm", 0>>)
                        /\ work' = work \cup {"decode"}
                        /\ \/ \* AudioFileClip(bgm_path) raises
                              /\ Throw(<<"bgm", 0>>, "BgmLoadError", "process_bgm", "bgm")
                              /\ UNCHANGED <<bgm_call, final_audio, open_handles>>
                           \/ /\ exists
                              /\ \E original_duration \in BgmDurations :
                                   LET r == ProcessBgm(original_duration, voice.duration)
                                   IN  /\ bgm_call' = r
                                       /\ open_handles' = open_handles \cup {<<"bgm", 0>>}
                                       /\ IF r.ok
                                          THEN /\ final_audio' =
                                                    [clips |-> clips,
                                                     volume |-> VoiceVolume,
                                                     bgm |-> r,
                                                     duration |->
                                                        Max(voice.duration,
                                                            r.start + r.duration)]
                                               /\ pc' = "attach"
                                               /\ UNCHANGED <<log, thrown, failed_unit>>
                                          ELSE /\ Throw(<<"bgm", 0>>, r.err,
                                                        "process_bgm", "bgm")
                                               /\ UNCHANGED final_audio
                   ELSE /\ final_audio' = voice
                        /\ pc' = "attach"
                        /\ UNCHANGED <<bgm_call, open_handles, attempts, work,
                                       log, thrown, failed_unit>>
    /\ UNCHANGED <<inputs, synthVars, videoVars, exitVars>>

\* final_video = final_video.set_audio(final_audio)
AttachAudio ==
    /\ pc = "attach"
    /\ final_video' = [final_video EXCEPT !.audio = final_audio]
    /\ pc' = "export"
    /\ UNCHANGED <<inputs, synthVars, folder, video_path, resized, img_i,
                   video_clips, audioVars, exitVars, log, open_handles,
                   attempts, work, thrown, failed_unit>>

\* final_video.write_videofile(output_path, ...); return output_path
Export ==
    /\ pc = "export"
    /\ Bump(<<"export", 0>>)
    /\ work' = work \cup {"encode"}
    /\ \/ /\ Throw(<<"export", 0>>, "ExportError", "", "")
          /\ UNCHANGED result
       \/ /\ result' = OutputPath
          /\ pc' = "finally"
          /\ UNCHANGED <<log, thrown, failed_unit>>
    /\ UNCHANGED <<inputs, synthVars, videoVars, audioVars, raised, main_out,
                   log_open, open_handles>>

\* except Exception as e: log, raise
Except ==
    /\ pc = "except"
    /\ log' = Append(log, LogLine("create_video", "", thrown))
    /\ raised' = CreateVideoOnError(thrown)
    /\ pc' = "finally"
    /\ UNCHANGED <<inputs, synthVars, videoVars, audioVars, result, main_out,
                   log_open, open_handles, attempts, work, thrown, failed_unit>>

\* finally: self.log_file.close(); create_video is left
Finally ==
    /\ pc = "finally"
    /\ log_open' = FALSE
    /\ pc' = IF raised # NoError THEN "raised" ELSE "returned"
    /\ UNCHANGED <<inputs, synthVars, videoVars, audioVars, raised, result,
                   main_out, log, open_handles, attempts, work, thrown,
                   failed_unit>>

\* main: the completion message, or the handler's error message
Main ==
    /\ pc \in {"raised", "returned"}
    /\ main_out' = IF pc = "raised" THEN "error" ELSE "complete"
    /\ pc' = "exit"
    /\ UNCHANGED <<inputs, synthVars, videoVars, audioVars, raised, result,
                   log_open, log, open_handles, attempts, work, thrown,
                   failed_unit>>

Next ==
    \/ BeginCreateVideo
    \/ SynthSegment
    \/ SynthReturn
    \/ FindVideo
    \/ Intro
    \/ ImageStep
    \/ Composite
    \/ MixAudio
    \/ AttachAudio
    \/ Export
    \/ Except
    \/ Finally
    \/ Main

Spec == Init /\ [][Next]_vars

\* =================================================================== claims
N == Len(segments)
M == Len(image_paths)
ActualDurations == [k \in 1..Len(audio_segments) |-> audio_segments[k].duration]
NarrationClips == [k \in 1..Len(audio_segments) |-> audio_segments[k].audio]
Ended == pc \in {"raised", "returned", "exit"}
Failing == pc \in {"except", "finally", "raised", "exit"}
SynthReturned == pc \notin {"start", "synth"} /\ failed_unit[1] # "tts"

\* The order of the stages of create_video.
Rank(u) ==
    CASE u[1] = "tts" -> 1
      [] u[1] = "find" -> 2
      [] u[1] = "video" -> 3
      [] u[1] = "image" -> 4
      [] u[1] = "composite" -> 5
      [] u[1] = "bgm" -> 6
      [] u[1] = "export" -> 7
      [] OTHER -> 0

\* Unit v comes after unit u in a run of create_video.
Later(u, v) == Rank(v) > Rank(u) \/ (Rank(v) = Rank(u) /\ v[2] > u[2])

\* C1: every entry of the narration list starts at the sum of the actual
\* durations of the entries before it (entry 0 at 0); once
\* generate_audio_segments has returned the list has one entry per caption,
\* in caption order, and the timeline's duration (the latest end of an
\* entry) is the sum of all actual durations.
C1_StartsAreCumulativeSums ==
    /\ \A k \in 1..Len(audio_segments) :
         /\ audio_segments[k].start = SumDur(SubSeq(ActualDurations, 1, k - 1))
         /\ audio_segments[k].audio.start = audio_segments[k].start
         /\ audio_segments[k].audio.duration = audio_segments[k].duration
         /\ audio_segments[k].name = segments[k].name
    /\ SynthReturned =>
         /\ Len(audio_segments) = N
         /\ CompositeDuration(NarrationClips) = SumDur(ActualDurations)

\* C1 witness: three captions were synthesized and the third one's start
\* differs from its nominal start.
C1_Witness ==
    /\ SynthReturned
    /\ Len(audio_segments) = 3
    /\ audio_segments[3].start # segments[3].start
    /\ audio_segments[2].start # segments[2].start

\* C2: every visual track has the start and the duration of the narration
\* entry it belongs to, the intro video clip belongs to entry 0 and the
\* image clip made in iteration i to entry i; visual tracks follow the
\* caption order without overlapping, and the composite holds these tracks.
C2_VisualTracksFollowNarration ==
    /\ \A k \in 1..Len(video_clips) :
         LET c == video_clips[k]
         IN  /\ c.entry + 1 \in 1..Len(audio_segments)
             /\ c.start = audio_segments[c.entry + 1].start
             /\ c.duration = audio_segments[c.entry + 1].duration
             /\ (c.kind = "video") = (c.entry = 0)
             /\ (k = 1) = (c.entry = 0)
    /\ \A k, l \in 1..Len(video_clips) :
         k < l => /\ video_clips[k].entry < video_clips[l].entry
                  /\ video_clips[k].start + video_clips[k].duration
                        <= video_clips[l].start
    /\ final_video.composed => final_video.clips = video_clips

\* C2 witness: a composite of the intro clip and two image clips whose
\* durations differ from the nominal one.
C2_Witness ==
    /\ final_video.composed
    /\ Len(final_video.clips) = 3
    /\ final_video.clips[2].duration # NominalLen
    /\ final_video.clips[3].start # segments[3].start

\* C3: the composite holds 1 + min(N-1, M) visual tracks, namely the intro
\* and one image track for each entry i >= 1 with i-1 < M, built from image
\* path i-1; no image path is looked up out of range, so a missing image is
\* never the reason of a failure.
C3_VisualTrackCount ==
    /\ final_video.composed =>
         /\ N >= 1
         /\ Len(final_video.clips) = 1 + Min(N - 1, M)
         /\ {final_video.clips[k].entry : k \in 1..Len(final_video.clips)}
               = {0} \cup {i \in 1..(N - 1) : i - 1 < M}
         /\ \A k \in 1..Len(final_video.clips) :
              LET c == final_video.clips[k]
              IN  c.kind = "image" => c.image = c.entry - 1 /\ c.image < M
                                      /\ c.image <= N - 2
    /\ \A i \in 1..Len(SegmentNames) :
         /\ attempts[<<"image", i>>] > 0 => i - 1 < M /\ i <= N - 1
         /\ failed_unit = <<"image", i>> => thrown = "ImageError"
    /\ thrown = "IndexError" => N = 0

\* C3 witness: three narration entries, one image, and the run completed.
C3_Witness ==
    /\ N = 3
    /\ M = 1
    /\ pc = "exit"
    /\ main_out = "complete"
    /\ Len(final_video.clips) = 2

\* C4: whenever process_bgm has loaded a background of duration Do > 0 for a
\* required duration Dr > 0, it returns a track of duration exactly Dr
\* without error; with Do < Dr it is ceil(Dr/Do) repetitions trimmed to Dr.
C4_BgmDurationIsRequired ==
    bgm_call.called =>
        /\ bgm_call.ok
        /\ bgm_call.duration = bgm_call.required
        /\ bgm_call.original < bgm_call.required =>
              /\ bgm_call.repeat_times * bgm_call.original >= bgm_call.required
              /\ (bgm_call.repeat_times - 1) * bgm_call.original < bgm_call.required

\* The folder listing, once read, holds no name ending in .mp4 or .MP4.
NoUsableVideo ==
    /\ attempts[<<"find", 0>>] > 0
    /\ \A k \in 1..Len(folder) :
         /\ ~EndsWith(folder[k], <<".", "m", "p", "4">>)
         /\ ~EndsWith(folder[k], <<".", "M", "P", "4">>)

\* C5 as claimed: a configuration error (no usable video file, or an empty
\* caption list) makes create_video fail with no processing performed.
C5_AbortsBeforeAnyProcessing ==
    (thrown # NoError /\ (NoUsableVideo \/ N = 0)) => work = {}

\* C5 as amended: nothing but narration synthesis is performed before the
\* video folder is listed; when the listing holds no usable video file
\* create_video fails with the no-video-file error before any asset
\* decoding, compositing or encoding, but after every caption has been
\* synthesized once; with an empty caption list it never performs any
\* processing and never returns a path.
C5_ConfigErrorsAbortBeforeVisualWork ==
    /\ attempts[<<"find", 0>>] = 0 => work \subseteq {"synthesis"}
    /\ NoUsableVideo =>
         /\ thrown = "NoVideoFile"
         /\ Failing
         /\ work \subseteq {"synthesis"}
         /\ \A k \in 1..N : attempts[<<"tts", k>>] = 1
         /\ Len(audio_segments) = N
         /\ open_handles \subseteq {<<"tts", k>> : k \in 1..N}
         /\ video_clips = <<>> /\ ~final_video.composed
         /\ result = NoPath
    /\ N = 0 =>
         /\ work = {}
         /\ pc \in {"start", "synth", "find_video", "intro"} \/ Failing
         /\ thrown \in {NoError, "NoVideoFile", "IndexError"}
         /\ result = NoPath
         /\ Ended => raised # NoError

\* C5 witness: two captions were synthesized, then the folder held no
\* usable video file and create_video raised.
C5_Witness ==
    /\ NoUsableVideo
    /\ folder # <<>>
    /\ N = 2
    /\ work = {"synthesis"}
    /\ pc = "raised"

\* C6: when synthesis or loading fails for caption k, the handler logs the
\* caption's name with the error and raises: captions up to k were each
\* attempted once, later captions never, no list reaches create_video, and
\* no visual, mixing or export stage runs.  No caption is ever attempted
\* twice.
C6_SynthesisFailsFast ==
    /\ \A k \in 1..Len(SegmentNames) : attempts[<<"tts", k>>] <= 1
    /\ \A k \in 1..Len(SegmentNames) :
         failed_unit = <<"tts", k>> =>
            /\ k <= N
            /\ thrown \in {"SynthesisError", "AudioLoadError"}
            /\ Failing
            /\ \E j \in 1..Len(log) :
                 log[j] = LogLine("generate_audio_segments", segments[k].name, thrown)
            /\ \A j \in 1..Len(SegmentNames) :
                 attempts[<<"tts", j>>] = IF j <= k THEN 1 ELSE 0
            /\ Len(audio_segments) = k - 1
            /\ \A u \in Units : u[1] # "tts" => attempts[u] = 0
            /\ video_clips = <<>> /\ ~final_video.composed
            /\ voice_audio = NoAudio /\ final_audio = NoAudio
            /\ result = NoPath
            /\ Ended => raised = thrown

\* C6 witness: the first caption was synthesized, the second failed, and
\* main has reported the error.
C6_Witness ==
    /\ failed_unit = <<"tts", 2>>
    /\ N = 3
    /\ Len(audio_segments) = 1
    /\ pc = "exit"
    /\ main_out = "error"

\* C7: once a stage has failed, the failing call was made once, no later
\* call is ever made, create_video yields no output path; its handler logs
\* the error and raises the same error to main, and main reports the error
\* instead of completion.
C7_FailuresAreLoggedAndReraised ==
    thrown # NoError =>
        /\ Failing
        /\ failed_unit \in Units
        /\ attempts[failed_unit] = IF thrown = "IndexError" THEN 0 ELSE 1
        /\ \A u \in Units : Later(failed_unit, u) => attempts[u] = 0
        /\ result = NoPath
        /\ main_out # "complete"
        /\ pc # "except" =>
              /\ raised = thrown
              /\ log # <<>>
              /\ log[Len(log)] = LogLine("create_video", "", thrown)
        /\ pc = "exit" => main_out = "error"

\* C7 witness: the export failed after every earlier stage succeeded, and
\* main has reported the error.
C7_Witness ==
    /\ thrown = "ExportError"
    /\ raised = "ExportError"
    /\ attempts[<<"export", 0>>] = 1
    /\ pc = "exit"
    /\ main_out = "error"

\* The background is absent: no path was given, or the file does not exist.
BgmAbsent == bgm_path = NoPath \/ bgm_exists = "no"

\* C8: with the background absent no background processing is done, the
\* final mix is the narration mix (its duration the total narration
\* duration), and nothing but the export can fail from then on; a
\* background is overlaid only when the path is given and the file exists,
\* from time 0, attenuated, on the unchanged narration mix.
C8_BackgroundIsOptional ==
    /\ BgmAbsent =>
         /\ attempts[<<"bgm", 0>>] = 0
         /\ ~bgm_call.called
         /\ "bgm" \notin {h[1] : h \in open_handles}
         /\ voice_audio # NoAudio =>
              /\ final_audio = voice_audio
              /\ ~final_audio.bgm.called
              /\ final_audio.duration = SumDur(ActualDurations)
              /\ pc \in {"attach", "export"} \/ Failing \/ Ended
              /\ thrown # NoError => failed_unit = <<"export", 0>>
    /\ final_audio.bgm.called =>
         /\ bgm_path # NoPath /\ bgm_exists = "yes"
         /\ final_audio.bgm.start = 0
         /\ final_audio.bgm.volume = BgmVolume
         /\ final_audio.volume = VoiceVolume
         /\ final_audio.clips = voice_audio.clips
         /\ voice_audio.volume = VoiceVolume

\* C8 witness: a path was given, the file does not exist, and the run
\* completed with the narration mix attached to the video.
C8_Witness ==
    /\ bgm_path # NoPath
    /\ bgm_exists = "no"
    /\ pc = "exit"
    /\ main_out = "complete"
    /\ result = OutputPath
    /\ final_video.audio = voice_audio

\* C9: whatever the source resolution, resize_and_pad_video yields frames of
\* exactly the canvas size without error, the scaled content centred to
\* within one pixel.
C9_ResizeYieldsCanvas ==
    resized.src # <<0, 0>> =>
        /\ resized.ok
        /\ resized.size = video_size
        /\ resized.frame.ok
        /\ resized.frame.x_offset - resized.frame.right \in {-1, 0, 1}
        /\ resized.frame.y_offset - resized.frame.bottom \in {-1, 0, 1}

\* C10: once create_video has ended, by return or by raise, the log file is
\* closed and no media handle opened during the run is still open.
C10_ResourcesReleased ==
    Ended => ~log_open /\ open_handles = {}

====
